---------------------------- MODULE Spec2Model ----------------------------
(***************************************************************************)
(* FamilyFlow assistant backend (src/backend/main.py).                     *)
(*                                                                         *)
(* Text is modelled as a sequence of lexical tokens.  Every token stands   *)
(* for one fixed character string, so that the regular expressions and     *)
(* json.loads of the source act on a token sequence exactly as they act on *)
(* the characters it stands for:                                           *)
(*                                                                         *)
(*   "LB" {      "RB" }       "COLON" :    "COMMA" ,                       *)
(*   "TY" "type"   "AC" "action"   "SX" "X"   "SY" "Y"   "SE" ""           *)
(*        (the five JSON string literals, quotes included)                 *)
(*   "NUL" null  "NUM" 1      "NL" \n      "SP" (one space)                *)
(*   "BT" `      "JSON" json  "W"  a  (a letter of ordinary prose)         *)
(***************************************************************************)
EXTENDS Integers, Sequences, FiniteSets, TLC

(***************************************************************************)
(* Lexical classes                                                         *)
(***************************************************************************)
StrTokens == {"TY", "AC", "SX", "SY", "SE"}

\* the characters between the quotes of a string literal
StrOf(t) ==
  CASE t = "TY" -> "type"
    [] t = "AC" -> "action"
    [] t = "SX" -> "X"
    [] t = "SY" -> "Y"
    [] t = "SE" -> ""

\* \s of the regular expressions, and the characters str.strip() removes
IsWs(t) == t \in {"SP", "NL"}

\* first position >= i that holds no whitespace (Len(s)+1 when there is none)
SkipWs(s, i) ==
  CHOOSE j \in i..(Len(s) + 1) :
    /\ \A k \in i..(j - 1) : IsWs(s[k])
    /\ (j = Len(s) + 1 \/ ~IsWs(s[j]))

\* s[i] when i is a position of s, "EOF" otherwise
At(s, i) == IF i \in 1..Len(s) THEN s[i] ELSE "EOF"

\* str.strip()
Strip(s) ==
  LET a == SkipWs(s, 1)
      b == IF a > Len(s) THEN a - 1
           ELSE CHOOSE j \in a..Len(s) :
                  /\ ~IsWs(s[j])
                  /\ \A k \in (j + 1)..Len(s) : IsWs(s[k])
  IN SubSeq(s, a, b)

(***************************************************************************)
(* json.loads on a token sequence                                          *)
(***************************************************************************)
EmptyDict == [k \in {} |-> <<>>]

DictPut(d, k, v) == [x \in (DOMAIN d) \cup {k} |-> IF x = k THEN v ELSE d[x]]

ParseFail == [ok |-> FALSE, next |-> 0, val |-> EmptyDict]

\* end of the run of digits that starts at i
NumEnd(s, i) ==
  CHOOSE j \in i..Len(s) :
    /\ \A k \in i..j : s[k] = "NUM"
    /\ At(s, j + 1) # "NUM"

RECURSIVE ParseObject(_, _)
RECURSIVE ParseMembers(_, _, _)

\* the value an object read by ParseObject stands for
NestedValue(s, v, r) ==
  IF r.ok
    THEN [ok |-> TRUE, next |-> r.next,
          val |-> [kind |-> "obj", val |-> SubSeq(s, v, r.next - 1)]]
    ELSE ParseFail

\* a JSON value at position v: a string, null, a number or an object
ParseValue(s, v) ==
  IF At(s, v) \in StrTokens
    THEN [ok |-> TRUE, next |-> v + 1, val |-> [kind |-> "str", val |-> <<StrOf(s[v])>>]]
  ELSE IF At(s, v) = "NUL"
    THEN [ok |-> TRUE, next |-> v + 1, val |-> [kind |-> "null", val |-> <<>>]]
  ELSE IF At(s, v) = "NUM"
    THEN [ok |-> TRUE, next |-> NumEnd(s, v) + 1,
          val |-> [kind |-> "num", val |-> SubSeq(s, v, NumEnd(s, v))]]
  ELSE IF At(s, v) = "LB"
    THEN NestedValue(s, v, ParseObject(s, v))
  ELSE ParseFail

\* what follows the member whose key is at position k and whose value was
\* read as pv: the end of the object, or a comma and the next member
AfterMember(s, k, d, pv) ==
  IF ~pv.ok THEN ParseFail
  ELSE IF At(s, SkipWs(s, pv.next)) = "RB"
    THEN [ok |-> TRUE, next |-> SkipWs(s, pv.next) + 1,
          val |-> DictPut(d, StrOf(s[k]), pv.val)]
  ELSE IF At(s, SkipWs(s, pv.next)) = "COMMA"
    THEN ParseMembers(s, SkipWs(s, SkipWs(s, pv.next) + 1),
                      DictPut(d, StrOf(s[k]), pv.val))
  ELSE ParseFail

\* the members of an object from the key at position k on; d holds the
\* members read so far (a repeated key keeps its last value)
ParseMembers(s, k, d) ==
  IF At(s, k) \notin StrTokens THEN ParseFail
  ELSE IF At(s, SkipWs(s, k + 1)) # "COLON" THEN ParseFail
  ELSE AfterMember(s, k, d, ParseValue(s, SkipWs(s, SkipWs(s, k + 1) + 1)))

\* an object whose opening brace is at position i
ParseObject(s, i) ==
  IF At(s, i) # "LB" THEN ParseFail
  ELSE IF At(s, SkipWs(s, i + 1)) = "RB"
    THEN [ok |-> TRUE, next |-> SkipWs(s, i + 1) + 1, val |-> EmptyDict]
  ELSE ParseMembers(s, SkipWs(s, i + 1), EmptyDict)

\* the whole of s must be the object read as r
WholeText(s, r) == IF r.ok /\ SkipWs(s, r.next) = Len(s) + 1 THEN r ELSE ParseFail

\* json.loads(s): ok is FALSE where the source raises JSONDecodeError
json_loads(s) == WholeText(s, ParseObject(s, SkipWs(s, 1)))

(***************************************************************************)
(* The regular expressions of extract_action and clean_reply.  The tokens  *)
(* are all lower case, so re.IGNORECASE changes nothing here, and re.DOTALL*)
(* matters only for the ".*?" of the fence pattern.                        *)
(***************************************************************************)
NoMatch == [end |-> 0, lo |-> 0, hi |-> 0]

\* first brace after position i (0 when there is none)
NextBrace(s, i) ==
  IF \E j \in (i + 1)..Len(s) : s[j] \in {"LB", "RB"}
    THEN CHOOSE j \in (i + 1)..Len(s) :
           /\ s[j] \in {"LB", "RB"}
           /\ \A k \in (i + 1)..(j - 1) : s[k] \notin {"LB", "RB"}
    ELSE 0

\* first backtick after position i (0 when there is none)
NextTick(s, i) ==
  IF \E j \in (i + 1)..Len(s) : s[j] = "BT"
    THEN CHOOSE j \in (i + 1)..Len(s) :
           /\ s[j] = "BT"
           /\ \A k \in (i + 1)..(j - 1) : s[k] # "BT"
    ELSE 0

\* "key"\s*:\s*"[^"]+" at position p, ending before position j
KeyedString(s, p, j, key) ==
  /\ s[p] = key
  /\ LET c == SkipWs(s, p + 1) IN
       /\ c < j
       /\ s[c] = "COLON"
       /\ LET v == SkipWs(s, c + 1) IN v < j /\ s[v] \in StrTokens \ {"SE"}

\* the pattern of lines 249, 250 made to take in nested objects: the match
\* runs to the brace that closes the one at position i
MatchFlatNested(s, i, key) ==
  IF /\ s[i] = "LB"
     /\ ParseObject(s, i).ok
     /\ \E p \in (i + 1)..(ParseObject(s, i).next - 2) :
          KeyedString(s, p, ParseObject(s, i).next - 1, key)
    THEN [end |-> ParseObject(s, i).next - 1, lo |-> i, hi |-> ParseObject(s, i).next - 1]
    ELSE NoMatch

\* \{[^{}]*"key"\s*:\s*"[^"]+"[^{}]*\}  at position i  (lines 249, 250)
MatchFlat(s, i, key) ==
  LET j == NextBrace(s, i) IN
  IF /\ s[i] = "LB"
     /\ j # 0
     /\ s[j] = "RB"
     /\ \E p \in (i + 1)..(j - 1) : KeyedString(s, p, j, key)
    THEN [end |-> j, lo |-> i, hi |-> j]
    ELSE NoMatch

\* ``` at position i
IsFenceMark(s, i) == At(s, i) = "BT" /\ At(s, i + 1) = "BT" /\ At(s, i + 2) = "BT"

\* ```json\s*(\{.*?\})\s*```  at position i  (lines 251, 281); the group is
\* the shortest {...} that is followed by \s*```
MatchFence(s, i) ==
  LET l == SkipWs(s, i + 4)
      Closes(q) == s[q] = "RB" /\ IsFenceMark(s, SkipWs(s, q + 1))
  IN
  IF /\ IsFenceMark(s, i)
     /\ At(s, i + 3) = "JSON"
     /\ At(s, l) = "LB"
     /\ \E q \in (l + 1)..Len(s) : Closes(q)
    THEN LET q == CHOOSE q \in (l + 1)..Len(s) :
                    Closes(q) /\ \A r \in (l + 1)..(q - 1) : ~Closes(r)
         IN [end |-> SkipWs(s, q + 1) + 2, lo |-> l, hi |-> q]
    ELSE NoMatch

\* `(\{[^`]+\})`  at position i  (lines 252, 282)
MatchTick(s, i) ==
  LET q == NextTick(s, i) IN
  IF /\ s[i] = "BT"
     /\ At(s, i + 1) = "LB"
     /\ q # 0
     /\ q - 1 >= i + 3
     /\ s[q - 1] = "RB"
    THEN [end |-> q, lo |-> i + 1, hi |-> q - 1]
    ELSE NoMatch

\* "type"\s*: at position p, ending before position j
TypeKey(s, p, j) ==
  s[p] = "TY" /\ LET c == SkipWs(s, p + 1) IN c < j /\ s[c] = "COLON"

\* \n\s*\{[^{}]*"type"\s*:[^{}]*\}\s*\n?  at position i  (line 283)
MatchLine(s, i) ==
  LET l == SkipWs(s, i + 1)
      j == IF At(s, l) = "LB" THEN NextBrace(s, l) ELSE 0
  IN
  IF /\ s[i] = "NL"
     /\ j # 0
     /\ s[j] = "RB"
     /\ \E p \in (l + 1)..(j - 1) : TypeKey(s, p, j)
    THEN [end |-> SkipWs(s, j + 1) - 1, lo |-> l, hi |-> j]
    ELSE NoMatch

\* \n{3,}  at position i  (line 284)
MatchNewlines(s, i) ==
  LET n == IF s[i] = "NL"
             THEN CHOOSE j \in i..Len(s) :
                    /\ \A k \in i..j : s[k] = "NL"
                    /\ At(s, j + 1) # "NL"
             ELSE 0
  IN IF n - i + 1 >= 3 THEN [end |-> n, lo |-> i, hi |-> n] ELSE NoMatch

MatchAt(pat, s, i) ==
  CASE pat = "type_obj"   -> MatchFlat(s, i, "TY")
    [] pat = "action_obj" -> MatchFlat(s, i, "AC")
    [] pat = "fence"      -> MatchFence(s, i)
    [] pat = "tick"       -> MatchTick(s, i)
    [] pat = "line_obj"   -> MatchLine(s, i)
    [] pat = "newlines"   -> MatchNewlines(s, i)

\* re.findall(pat, s): the matches from left to right, none overlapping; a
\* pattern with a group yields the group
RECURSIVE FindAllFrom(_, _, _)
FindAllStep(pat, s, i, m) ==
  IF m.end # 0
    THEN <<SubSeq(s, m.lo, m.hi)>> \o FindAllFrom(pat, s, m.end + 1)
    ELSE FindAllFrom(pat, s, i + 1)

FindAllFrom(pat, s, i) ==
  IF i > Len(s) THEN <<>> ELSE FindAllStep(pat, s, i, MatchAt(pat, s, i))

FindAll(pat, s) == FindAllFrom(pat, s, 1)

\* re.sub(pat, repl, s)
RECURSIVE SubFrom(_, _, _, _)
SubStep(pat, repl, s, i, m) ==
  IF m.end # 0
    THEN repl \o SubFrom(pat, repl, s, m.end + 1)
    ELSE <<s[i]>> \o SubFrom(pat, repl, s, i + 1)

SubFrom(pat, repl, s, i) ==
  IF i > Len(s) THEN <<>> ELSE SubStep(pat, repl, s, i, MatchAt(pat, s, i))

ReSub(pat, repl, s) == SubFrom(pat, repl, s, 1)

(***************************************************************************)
(* extract_action and clean_reply                                          *)
(***************************************************************************)
None == [some |-> FALSE, val |-> EmptyDict]
Some(d) == [some |-> TRUE, val |-> d]

\* dict.get(key): Python's None is the JSON null
DictGet(d, key) == IF key \in DOMAIN d THEN d[key] ELSE [kind |-> "null", val |-> <<>>]

\* Python's truth value of a parsed JSON value
Truthy(v) ==
  CASE v.kind = "str"  -> v.val # <<"">>
    [] v.kind = "null" -> FALSE
    [] v.kind = "num"  -> TRUE
    [] v.kind = "obj"  -> json_loads(v.val).val # EmptyDict

\* parsed.get("type") or parsed.get("action")
ActionType(parsed) ==
  IF Truthy(DictGet(parsed, "type")) THEN DictGet(parsed, "type")
  ELSE DictGet(parsed, "action")

\* action_type and isinstance(action_type, str)
TruthyString(v) == Truthy(v) /\ v.kind = "str"

\* lines 266-267: whether the candidate is returned
Accepted(parsed) == TruthyString(ActionType(parsed))

\* lines 268-269 with a plain assignment in place of the pop
NormaliseKeepAction(parsed) ==
  IF "action" \in DOMAIN parsed /\ "type" \notin DOMAIN parsed
    THEN DictPut(parsed, "type", parsed["action"])
    ELSE parsed

\* lines 268-269: parsed["type"] = parsed.pop("action")
Normalise(parsed) ==
  IF "action" \in DOMAIN parsed /\ "type" \notin DOMAIN parsed
    THEN [k \in ((DOMAIN parsed) \ {"action"}) \cup {"type"} |->
            IF k = "type" THEN parsed["action"] ELSE parsed[k]]
    ELSE parsed

\* the list of lines 248-253 with its first two patterns exchanged
PatternsActionFirst == <<"action_obj", "type_obj", "fence", "tick">>

Patterns == <<"type_obj", "action_obj", "fence", "tick">>

\* the matches of the four patterns in the order the two loops visit them
RECURSIVE CandidatesFrom(_, _)
CandidatesFrom(s, n) ==
  IF n > Len(Patterns) THEN <<>>
  ELSE FindAll(Patterns[n], s) \o CandidatesFrom(s, n + 1)

Candidates(s) == CandidatesFrom(s, 1)

\* lines 264-270 for the object r that json.loads gave
TryParsed(r) ==
  IF ~r.ok THEN None
  ELSE IF Accepted(r.val) THEN Some(Normalise(r.val))
  ELSE None

\* lines 259-262 for the stripped match
TryStripped(json_str) ==
  IF At(json_str, 1) # "LB" THEN None ELSE TryParsed(json_loads(json_str))

\* lines 257-273 for one match: the object to return, or None to go on
TryMatch(match) == TryStripped(Strip(match))

RECURSIVE ScanMatches(_, _)
ScanStep(matches, k, r) == IF r.some THEN r ELSE ScanMatches(matches, k + 1)

ScanMatches(matches, k) ==
  IF k > Len(matches) THEN None ELSE ScanStep(matches, k, TryMatch(matches[k]))

extract_action(s) == ScanMatches(Candidates(s), 1)

clean_reply(s) ==
  Strip(ReSub("newlines", <<"NL", "NL">>,
          ReSub("line_obj", <<"NL">>,
            ReSub("tick", <<>>,
              ReSub("fence", <<>>, s)))))

(***************************************************************************)
(* State                                                                   *)
(***************************************************************************)
VARIABLES
  FIREBASE_PROJECT_ID,  \* line 93: "" when the project lock is off
  ANTHROPIC_API_KEY,    \* line 30: "" when the provider key is not set
  authorization,        \* the request's Authorization header
  request,              \* the ChatRequest body
  claims,               \* what require_firebase_user returned
  verified,             \* whether the token issuer accepted the token
  pc,                   \* where the request is
  nblocks,              \* len(response.content) of the provider's answer
  collected,            \* blocks of response.content visited by the loop
  content,              \* text of the blocks visited, concatenated
  reply_text,           \* call_claude's local reply_text
  ret,                  \* what call_claude returned
  failure,              \* the step of call_claude that raised, if one did
  providerCalled,       \* whether client.messages.create was called
  response,             \* the HTTP response
  clock,                \* the wall clock datetime.now() reads
  ticks,                \* how often the clock advanced
  today,                \* build_system_prompt's local today
  tomorrow,             \* build_system_prompt's local tomorrow
  prompt                \* what build_system_prompt returned

httpVars == <<FIREBASE_PROJECT_ID, authorization, request, claims, verified, response>>
callVars == <<ANTHROPIC_API_KEY, nblocks, collected, content, reply_text, ret,
              failure, providerCalled>>
promptVars == <<clock, ticks, today, tomorrow, prompt>>
vars == <<httpVars, callVars, promptVars, pc>>

(***************************************************************************)
(* Bounds                                                                  *)
(***************************************************************************)
\* blocks in a provider answer when call_claude is run on its own
MaxBlocks == 3
\* blocks in a provider answer when a whole request is run
MaxChatBlocks == 1
\* the years the clock starts in
FirstYear == 2024
LastYear == 2025
\* instants of one day the clock tells apart
TicksPerDay == 2
\* how often the clock advances while one prompt is built
MaxTicks == 2

(***************************************************************************)
(* Optional values: Python's None                                          *)
(***************************************************************************)
NONE == "None"
Falsy(x) == x \in {NONE, ""}

NoHeader == [some |-> FALSE, val |-> <<>>]
Header(h) == [some |-> TRUE, val |-> h]

(***************************************************************************)
(* require_firebase_user (lines 97-136)                                    *)
(* A header is a sequence of pieces: the words "Bearer", "bearer",         *)
(* "Basic", a token "tok", and "SP" for one space.                         *)
(***************************************************************************)
Lower(piece) == IF piece = "Bearer" THEN "bearer" ELSE piece

\* authorization.lower().startswith("bearer ")
StartsWithBearer(h) == Len(h) >= 2 /\ Lower(h[1]) = "bearer" /\ h[2] = "SP"

\* authorization.split(" ", 1)[1].strip()
BearerToken(h) ==
  LET sp == CHOOSE i \in 1..Len(h) : h[i] = "SP" /\ \A k \in 1..(i - 1) : h[k] # "SP"
  IN Strip(SubSeq(h, sp + 1, Len(h)))

IssuerPrefix == "https://securetoken.google.com/"

\* f"https://securetoken.google.com/{FIREBASE_PROJECT_ID}"
expected_iss(project) == <<IssuerPrefix, project>>

\* the issuer check comparing the issuer's host only
IssuerOkPrefixOnly(project, iss) == project = "" \/ (iss # <<>> /\ iss[1] = IssuerPrefix)

\* lines 130-134: the strict issuer check
IssuerOk(project, iss) == project = "" \/ iss = expected_iss(project)

NoClaims == [iss |-> <<>>, user_id |-> NONE, sub |-> NONE, email |-> NONE]

\* the header checks of lines 104-111: the detail of the 401, or "ok"
HeaderCheck(auth) ==
  IF ~auth.some \/ auth.val = <<>> THEN "Missing Authorization header."
  ELSE IF ~StartsWithBearer(auth.val) THEN "Authorization must be: Bearer <token>"
  ELSE IF BearerToken(auth.val) = <<>> THEN "Empty bearer token."
  ELSE "ok"

HttpError(code, detail) ==
  [status |-> code, detail |-> detail, reply |-> <<>>, action |-> None]

NoResponse == [status |-> 0, detail |-> "", reply |-> <<>>, action |-> None]

\* the issuers a token may name; <<>> is a token without an iss claim
Issuers ==
  { <<>>, <<IssuerPrefix, "P">>, <<IssuerPrefix, "Q">>, <<"https://accounts.google.com", "">> }

\* the identities a verified token may carry
Identities ==
  { [user_id |-> NONE, sub |-> NONE, email |-> NONE],
    [user_id |-> "u1", sub |-> "s1", email |-> "e@token"],
    [user_id |-> NONE, sub |-> "s1", email |-> NONE] }

\* the dependency of POST /assistant/chat: it runs before the handler's body
require_firebase_user ==
  /\ pc = "auth"
  /\ IF HeaderCheck(authorization) # "ok"
       THEN /\ response' = HttpError(401, HeaderCheck(authorization))
            /\ pc' = "done"
            /\ UNCHANGED <<claims, verified>>
       ELSE \/ \* verify_firebase_token raises: bad signature, expiry, audience
               /\ response' = HttpError(401, "Invalid Firebase ID token.")
               /\ pc' = "done"
               /\ UNCHANGED <<claims, verified>>
            \/ \* verify_firebase_token returns the token's claims
               \E iss \in Issuers, id \in Identities :
                 /\ verified' = TRUE
                 /\ claims' = [iss |-> iss, user_id |-> id.user_id,
                               sub |-> id.sub, email |-> id.email]
                 /\ IF IssuerOk(FIREBASE_PROJECT_ID, iss)
                      THEN pc' = "chat" /\ UNCHANGED response
                      ELSE /\ response' = HttpError(401, "Token project mismatch.")
                           /\ pc' = "done"
  /\ UNCHANGED <<FIREBASE_PROJECT_ID, authorization, request>>
  /\ UNCHANGED <<callVars, promptVars>>

(***************************************************************************)
(* assistant_chat (lines 310-338)                                          *)
(***************************************************************************)
\* the check of line 325 without its strip()
TextIsEmpty(t) == t = <<>>

\* not request.text.strip()
TextIsBlank(t) == Strip(t) = <<>>

\* lines 320-332: the request with userId and userEmail filled from the token
Backfill(req, cl) ==
  LET uid   == IF ~Falsy(cl.user_id) THEN cl.user_id ELSE cl.sub
      email == cl.email
  IN [req EXCEPT
        !.userId    = IF Falsy(req.userId)
                        THEN (IF ~Falsy(uid) THEN uid ELSE NONE)
                        ELSE req.userId,
        !.userEmail = IF Falsy(req.userEmail) /\ ~Falsy(email)
                        THEN email
                        ELSE req.userEmail]

\* lines 319-334, up to the call of call_claude
assistant_chat ==
  /\ pc = "chat"
  /\ IF TextIsBlank(request.text)
       THEN /\ response' = HttpError(400, "Message text is required")
            /\ pc' = "done"
            /\ UNCHANGED request
       ELSE /\ request' = Backfill(request, claims)
            /\ pc' = "call"
            /\ UNCHANGED response
  /\ UNCHANGED <<FIREBASE_PROJECT_ID, authorization, claims, verified>>
  /\ UNCHANGED <<callVars, promptVars>>

\* lines 336-338: call_claude returned
assistant_chat_respond ==
  /\ pc = "returned"
  /\ response' = [status |-> 200, detail |-> "", reply |-> ret.reply, action |-> ret.action]
  /\ pc' = "done"
  /\ UNCHANGED <<FIREBASE_PROJECT_ID, authorization, request, claims, verified>>
  /\ UNCHANGED <<callVars, promptVars>>

\* lines 345-355: an exception left the handler
global_exception_handler ==
  /\ pc = "raised"
  /\ response' = [status |-> 500, detail |-> failure,
                  reply |-> <<"Sorry, something went wrong on the server.">>,
                  action |-> None]
  /\ pc' = "done"
  /\ UNCHANGED <<FIREBASE_PROJECT_ID, authorization, request, claims, verified>>
  /\ UNCHANGED <<callVars, promptVars>>

(***************************************************************************)
(* call_claude (lines 212-242)                                             *)
(***************************************************************************)
\* the text blocks a provider answer is made of
Blocks ==
  { <<"W">>, <<"NL">>, <<"SP">>, <<"BT">>, <<"LB">>, <<"RB">>,
    <<"BT", "BT", "BT", "JSON", "NL">>,
    <<"NL", "BT", "BT", "BT">>,
    <<"LB", "TY", "COLON", "SX", "RB">>,
    <<"LB", "AC", "COLON", "SY", "RB">>,
    <<"LB", "TY", "COLON", "SE", "COMMA", "AC", "COLON", "SY", "RB">>,
    <<"LB", "TY", "COLON", "SX", "COMMA", "SY", "COLON", "LB", "SY", "COLON", "NUM", "RB", "RB">>,
    <<"LB", "SY", "COLON", "LB", "TY", "COLON", "SX", "RB", "RB">>,
    <<"LB", "TY", "COLON", "SX", "SP", "NUM", "RB">> }

NoReturn == [reply |-> <<>>, action |-> None]

\* lines 237-242: the reply that stands for an exception caught in the try
ErrorReply(step) ==
  IF step = "api_error"
    THEN [reply |-> <<"Sorry, there was an API error: ", step>>, action |-> None]
    ELSE [reply |-> <<"Sorry, something went wrong: ", step>>, action |-> None]

\* lines 231-235 on the concatenated text
Returned(cleaned, act) ==
  [reply_text |-> cleaned, ret |-> [reply |-> Strip(cleaned), action |-> act]]

CleanIfAction(t, act) == Returned(IF act.some THEN clean_reply(t) ELSE t, act)

ProcessReply(t) == CleanIfAction(t, extract_action(t))

\* lines 213-216: the key check and the construction of the client, which
\* stands before the try
call_claude_client ==
  /\ pc = "call"
  /\ IF ANTHROPIC_API_KEY = ""
       THEN /\ ret' = [reply |-> <<"Sorry, the assistant is not configured. Please set the API key.">>,
                       action |-> None]
            /\ pc' = "returned"
            /\ UNCHANGED failure
       ELSE \/ pc' = "request" /\ UNCHANGED <<ret, failure>>
            \/ \* anthropic.Anthropic(...) raises
               pc' = "raised" /\ failure' = "client" /\ UNCHANGED ret
  /\ UNCHANGED <<ANTHROPIC_API_KEY, nblocks, collected, content, reply_text, providerCalled>>
  /\ UNCHANGED <<httpVars, promptVars>>

\* lines 219-226: the prompt is built, the provider is called
call_claude_request ==
  /\ pc = "request"
  /\ \/ \* build_system_prompt raises before the provider is called
        /\ failure' = "prompt"
        /\ ret' = ErrorReply("prompt")
        /\ pc' = "returned"
        /\ UNCHANGED <<providerCalled, reply_text>>
     \/ \E outcome \in {"api_error", "request"} :
          /\ providerCalled' = TRUE
          /\ failure' = outcome
          /\ ret' = ErrorReply(outcome)
          /\ pc' = "returned"
          /\ UNCHANGED reply_text
     \/ /\ providerCalled' = TRUE
        /\ reply_text' = <<>>
        /\ pc' = "collect"
        /\ UNCHANGED <<failure, ret>>
  /\ UNCHANGED <<ANTHROPIC_API_KEY, nblocks, collected, content>>
  /\ UNCHANGED <<httpVars, promptVars>>

\* lines 227-229: one round of the loop over response.content
call_claude_block ==
  /\ pc = "collect"
  /\ collected < nblocks
  /\ collected' = collected + 1
  /\ \/ \E b \in Blocks :
          /\ reply_text' = reply_text \o b
          /\ content' = content \o b
     \/ \* a block without a text attribute
        UNCHANGED <<reply_text, content>>
  /\ UNCHANGED <<ANTHROPIC_API_KEY, nblocks, ret, failure, providerCalled, pc>>
  /\ UNCHANGED <<httpVars, promptVars>>

\* lines 231-235: the loop is over
call_claude_finish ==
  /\ pc = "collect"
  /\ collected = nblocks
  /\ \/ \E r \in {ProcessReply(reply_text)} :
          /\ reply_text' = r.reply_text
          /\ ret' = r.ret
          /\ UNCHANGED failure
     \/ \* an exception in the loop, in extract_action or in clean_reply
        \E step \in {"collect", "extract", "clean"} :
          /\ failure' = step
          /\ ret' = ErrorReply(step)
          /\ UNCHANGED reply_text
  /\ pc' = "returned"
  /\ UNCHANGED <<ANTHROPIC_API_KEY, nblocks, collected, content, providerCalled>>
  /\ UNCHANGED <<httpVars, promptVars>>

(***************************************************************************)
(* build_system_prompt (lines 144-205)                                     *)
(***************************************************************************)
IsLeap(y) == (y % 4 = 0 /\ y % 100 # 0) \/ y % 400 = 0

DaysInMonth(y, m) ==
  IF m = 2 THEN (IF IsLeap(y) THEN 29 ELSE 28)
  ELSE IF m \in {4, 6, 9, 11} THEN 30
  ELSE 31

\* date + timedelta(days=1)
NextDay(dt) ==
  IF dt.d < DaysInMonth(dt.y, dt.m) THEN [dt EXCEPT !.d = dt.d + 1]
  ELSE IF dt.m < 12 THEN [y |-> dt.y, m |-> dt.m + 1, d |-> 1]
  ELSE [y |-> dt.y + 1, m |-> 1, d |-> 1]

Digits == <<"0", "1", "2", "3", "4", "5", "6", "7", "8", "9">>
Digit(n) == Digits[n + 1]

\* strftime("%Y-%m-%d")
Strftime(dt) ==
  << Digit((dt.y \div 1000) % 10), Digit((dt.y \div 100) % 10),
     Digit((dt.y \div 10) % 10), Digit(dt.y % 10), "-",
     Digit(dt.m \div 10), Digit(dt.m % 10), "-",
     Digit(dt.d \div 10), Digit(dt.d % 10) >>

\* datetime.replace(hour=0, minute=0, second=0, microsecond=0)
AtMidnight(now) == [now EXCEPT !.tod = 0]

\* datetime + timedelta(days=1)
PlusOneDay(now) == [now EXCEPT !.date = NextDay(now.date)]

\* time passes
Tick ==
  /\ pc \in {"today", "tomorrow", "build"}
  /\ ticks < MaxTicks
  /\ ticks' = ticks + 1
  /\ clock' = IF clock.tod + 1 < TicksPerDay
                THEN [clock EXCEPT !.tod = clock.tod + 1]
                ELSE [date |-> NextDay(clock.date), tod |-> 0]
  /\ UNCHANGED <<today, tomorrow, prompt, pc>>
  /\ UNCHANGED <<httpVars, callVars>>

\* line 145
build_system_prompt_today ==
  /\ pc = "today"
  /\ today' = Strftime(clock.date)
  /\ pc' = "tomorrow"
  /\ UNCHANGED <<clock, ticks, tomorrow, prompt>>
  /\ UNCHANGED <<httpVars, callVars>>

\* line 146
build_system_prompt_tomorrow ==
  /\ pc = "tomorrow"
  /\ tomorrow' = Strftime(PlusOneDay(AtMidnight(clock)).date)
  /\ pc' = "build"
  /\ UNCHANGED <<clock, ticks, today, prompt>>
  /\ UNCHANGED <<httpVars, callVars>>

\* lines 148-205: the dates the template holds, and the context section
build_system_prompt ==
  /\ pc = "build"
  /\ prompt' = [today        |-> today,
                example      |-> today,
                due_tomorrow |-> tomorrow,
                due_today    |-> today,
                context      |-> IF Falsy(request.context) THEN NONE ELSE request.context]
  /\ pc' = "built"
  /\ UNCHANGED <<clock, ticks, today, tomorrow>>
  /\ UNCHANGED <<httpVars, callVars>>

(***************************************************************************)
(* Specifications                                                          *)
(***************************************************************************)
Headers ==
  { NoHeader, Header(<<>>),
    Header(<<"Basic", "SP", "tok">>),
    Header(<<"Bearer">>),
    Header(<<"Bearer", "tok">>),
    Header(<<"Bearer", "SP">>),
    Header(<<"Bearer", "SP", "SP">>),
    Header(<<"Bearer", "SP", "tok">>),
    Header(<<"bearer", "SP", "tok">>),
    Header(<<"Bearer", "SP", "SP", "tok", "SP">>) }

Texts == { <<>>, <<"SP">>, <<"NL", "SP">>, <<"W">>, <<"SP", "W", "SP">> }

Requests ==
  { [text |-> t, userId |-> u, userEmail |-> u, context |-> NONE] :
      t \in Texts, u \in {NONE, "app"} }

NoPrompt == [today |-> <<>>, example |-> <<>>, due_tomorrow |-> <<>>, due_today |-> <<>>,
             context |-> NONE]
NoDate == [y |-> 0, m |-> 0, d |-> 0]

PromptIdle ==
  /\ clock = [date |-> NoDate, tod |-> 0]
  /\ ticks = 0
  /\ today = <<>>
  /\ tomorrow = <<>>
  /\ prompt = NoPrompt

CallIdle ==
  /\ collected = 0
  /\ content = <<>>
  /\ reply_text = <<>>
  /\ ret = NoReturn
  /\ failure = "none"
  /\ providerCalled = FALSE

\* a request arrives at POST /assistant/chat
Init ==
  /\ FIREBASE_PROJECT_ID \in {"", "P"}
  /\ ANTHROPIC_API_KEY \in {"", "key"}
  /\ authorization \in Headers
  /\ request \in Requests
  /\ claims = NoClaims
  /\ verified = FALSE
  /\ response = NoResponse
  /\ nblocks \in 0..MaxChatBlocks
  /\ CallIdle
  /\ PromptIdle
  /\ pc = "auth"

Next ==
  \/ require_firebase_user
  \/ assistant_chat
  \/ call_claude_client
  \/ call_claude_request
  \/ call_claude_block
  \/ call_claude_finish
  \/ assistant_chat_respond
  \/ global_exception_handler

Spec == Init /\ [][Next]_vars

\* call_claude(message, context) called on its own
InitCall ==
  /\ FIREBASE_PROJECT_ID = ""
  /\ ANTHROPIC_API_KEY \in {"", "key"}
  /\ authorization = NoHeader
  /\ request = [text |-> <<"W">>, userId |-> NONE, userEmail |-> NONE, context |-> NONE]
  /\ claims = NoClaims
  /\ verified = FALSE
  /\ response = NoResponse
  /\ nblocks \in 0..MaxBlocks
  /\ CallIdle
  /\ PromptIdle
  /\ pc = "call"

NextCall ==
  \/ call_claude_client
  \/ call_claude_request
  \/ call_claude_block
  \/ call_claude_finish

SpecCall == InitCall /\ [][NextCall]_vars

Dates ==
  { dt \in [y : FirstYear..LastYear, m : 1..12, d : 1..31] : dt.d <= DaysInMonth(dt.y, dt.m) }

\* build_system_prompt(context) called on its own, at any moment
InitPrompt ==
  /\ FIREBASE_PROJECT_ID = ""
  /\ ANTHROPIC_API_KEY = "key"
  /\ authorization = NoHeader
  /\ request \in { [text |-> <<"W">>, userId |-> NONE, userEmail |-> NONE, context |-> c] :
                     c \in {NONE, "", "ctx"} }
  /\ claims = NoClaims
  /\ verified = FALSE
  /\ response = NoResponse
  /\ nblocks = 0
  /\ CallIdle
  /\ clock \in [date : Dates, tod : 0..(TicksPerDay - 1)]
  /\ ticks = 0
  /\ today = <<>>
  /\ tomorrow = <<>>
  /\ prompt = NoPrompt
  /\ pc = "today"

NextPrompt ==
  \/ Tick
  \/ build_system_prompt_today
  \/ build_system_prompt_tomorrow
  \/ build_system_prompt

SpecPrompt == InitPrompt /\ [][NextPrompt]_vars

(***************************************************************************)
(* Properties                                                              *)
(***************************************************************************)
\* call_claude returned, and no step of it raised
CallReturned == pc = "returned" /\ failure = "none"

AllWs(t) == \A i \in 1..Len(t) : IsWs(t[i])

Contains(s, sub) == \E i \in 1..(Len(s) - Len(sub) + 1) : SubSeq(s, i, i + Len(sub) - 1) = sub

Min(S) == CHOOSE x \in S : \A y \in S : x <= y

NonEmptyStr(v) == v.kind = "str" /\ v.val # <<"">>

BracePositions(s) == { i \in 1..Len(s) : s[i] \in {"LB", "RB"} }

NoTick(s) == \A i \in 1..Len(s) : s[i] # "BT"

\* the positions where a well-formed object without inner braces starts
FlatObjects(s) ==
  { i \in 1..Len(s) :
      /\ s[i] = "LB"
      /\ NextBrace(s, i) # 0
      /\ s[NextBrace(s, i)] = "RB"
      /\ json_loads(SubSeq(s, i, NextBrace(s, i))).ok }

FlatText(s, i) == SubSeq(s, i, NextBrace(s, i))
FlatDict(s, i) == json_loads(FlatText(s, i)).val

\* flat objects whose "type" is a non-empty string
TypedFlat(s) ==
  { i \in FlatObjects(s) :
      "type" \in DOMAIN FlatDict(s, i) /\ NonEmptyStr(FlatDict(s, i)["type"]) }

\* flat objects with a non-empty string "action" and no "type" key
ActionFlat(s) ==
  { i \in FlatObjects(s) :
      /\ "type" \notin DOMAIN FlatDict(s, i)
      /\ "action" \in DOMAIN FlatDict(s, i)
      /\ NonEmptyStr(FlatDict(s, i)["action"]) }

\* the object from i to j has its line to itself
OnOwnLine(s, i, j) ==
  /\ \A k \in 1..(i - 1) : (\A m \in k..(i - 1) : s[m] # "NL") => IsWs(s[k])
  /\ \A k \in (j + 1)..Len(s) : (\A m \in (j + 1)..k : s[m] # "NL") => IsWs(s[k])

\* the positions where a well-formed object that holds another object
\* starts, when the text has no brace outside that object
SoleNested(s) ==
  { i \in 1..Len(s) :
      /\ s[i] = "LB"
      /\ ParseObject(s, i).ok
      /\ BracePositions(s) \subseteq i..(ParseObject(s, i).next - 1)
      /\ \E k \in DOMAIN ParseObject(s, i).val : ParseObject(s, i).val[k].kind = "obj" }

CarriesAction(d) == \E k \in {"type", "action"} \cap DOMAIN d : NonEmptyStr(d[k])

\* an object inside d, at any depth, carries a "type" or an "action"
RECURSIVE InnerCarries(_)
InnerCarries(d) ==
  \E k \in DOMAIN d :
    /\ d[k].kind = "obj"
    /\ \/ CarriesAction(json_loads(d[k].val).val)
       \/ InnerCarries(json_loads(d[k].val).val)

BlankRequestDone == pc = "done" /\ AllWs(request.text)

\* the credential is well formed, accepted by the issuer, and passes the lock
CredentialValid ==
  /\ HeaderCheck(authorization) = "ok"
  /\ verified
  /\ (FIREBASE_PROJECT_ID = "" \/ claims.iss = <<IssuerPrefix, FIREBASE_PROJECT_ID>>)

\* C1, as stated: a request whose text is empty after trimming is answered
\* 400, whatever the state of its credential.
C1_BlankTextAlways400 == BlankRequestDone => response.status = 400

\* C1, amended: a request whose text is empty after trimming is answered 400
\* when its credential is valid and 401 when it is not; the provider is not
\* called in either case.
C1_BlankText400WhenAuthenticated ==
  BlankRequestDone =>
    /\ response.status = (IF CredentialValid THEN 400 ELSE 401)
    /\ ~providerCalled

C1_Witness == BlankRequestDone /\ CredentialValid /\ response.status = 400

WrongIssuer ==
  /\ FIREBASE_PROJECT_ID # ""
  /\ verified
  /\ claims.iss # <<IssuerPrefix, FIREBASE_PROJECT_ID>>

\* C2: with the project lock on, a request whose token the issuer accepted
\* but whose iss is not https://securetoken.google.com/<project id> is answered
\* 401, and the provider is never called for it.
C2_WrongIssuerRejected ==
  WrongIssuer => pc = "done" /\ response.status = 401 /\ ~providerCalled

C2_Witness ==
  /\ WrongIssuer
  /\ claims.iss = <<IssuerPrefix, "Q">>
  /\ ~AllWs(request.text)
  /\ response.status = 401

\* C3: whatever step of call_claude fails once the key is configured, the
\* call returns a pair whose action is none and whose reply embeds the error.
C3_NeverPropagates ==
  failure # "none" =>
    /\ pc = "returned"
    /\ ret.action = None
    /\ Contains(ret.reply, <<failure>>)

\* the reply holds one flat type-keyed object, on a line of its own, no
\* other brace and no backtick
OneTypeObject(s) ==
  /\ Cardinality(BracePositions(s)) = 2
  /\ TypedFlat(s) # {}
  /\ NoTick(s)
  /\ OnOwnLine(s, Min(TypedFlat(s)), NextBrace(s, Min(TypedFlat(s))))

\* C4: for a reply with exactly one well-formed flat {"type": "X", ...}
\* object on its own and no fence, extract_action returns an object of type
\* X and the cleaned reply no longer contains the object's text.
C4_ExtractedAndCleaned ==
  (CallReturned /\ OneTypeObject(content)) =>
    /\ ret.action.some
    /\ ret.action.val["type"] = FlatDict(content, Min(TypedFlat(content)))["type"]
    /\ ~Contains(ret.reply, FlatText(content, Min(TypedFlat(content))))

\* C5, as stated: for a reply whose action is an object that contains
\* another object, bare or wrapped in a fence or in backticks, whatever the
\* inner object carries, extract_action returns none.
C5_NestedAlwaysNone ==
  (CallReturned /\ SoleNested(content) # {}) => ~ret.action.some

BareNested(s) ==
  /\ SoleNested(s) # {}
  /\ NoTick(s)
  /\ ~InnerCarries(ParseObject(s, Min(SoleNested(s))).val)

\* C5, amended: for a reply whose only braces are those of one object that
\* contains another object, extract_action returns none when the reply has
\* no backtick and no inner object carries a "type" or an "action" that is a
\* non-empty string.
C5_BareNestedNone == (CallReturned /\ BareNested(content)) => ~ret.action.some

C5_Witness ==
  /\ CallReturned
  /\ BareNested(content)
  /\ CarriesAction(ParseObject(content, Min(SoleNested(content))).val)
  /\ ~ret.action.some

\* C6: clean_reply is idempotent: cleaning the reply call_claude cleaned
\* changes nothing.
C6_CleanIdempotent ==
  (CallReturned /\ ret.action.some) => clean_reply(ret.reply) = ret.reply

ReturnsFirstAction ==
  /\ ret.action.some
  /\ ret.action.val["type"] = FlatDict(content, Min(ActionFlat(content)))["action"]
  /\ "action" \notin DOMAIN ret.action.val

\* C7, as stated: for a reply that contains an {"action": "X", ...} object
\* without a "type" key, extract_action returns an object of type X without
\* an "action" key.
C7_ActionRenamedAlways == (CallReturned /\ ActionFlat(content) # {}) => ReturnsFirstAction

NoTypeKeyedFlat(s) == \A i \in FlatObjects(s) : "type" \notin DOMAIN FlatDict(s, i)

\* C7, amended: for a reply that contains a flat {"action": "X", ...} object
\* without a "type" key, X a non-empty string, and no flat object with a
\* "type" key, extract_action returns an object whose type is the X of the
\* first such object and which has no "action" key.
C7_ActionRenamed ==
  (CallReturned /\ ActionFlat(content) # {} /\ NoTypeKeyedFlat(content)) => ReturnsFirstAction

C7_Witness ==
  /\ CallReturned
  /\ ActionFlat(content) # {}
  /\ NoTypeKeyedFlat(content)
  /\ ret.action.val = [x \in {"type"} |-> [kind |-> "str", val |-> <<"Y">>]]

DigitValue(c) == CHOOSE n \in 0..9 : Digit(n) = c

\* the date a YYYY-MM-DD text names
Strptime(t) ==
  [y |-> 1000 * DigitValue(t[1]) + 100 * DigitValue(t[2]) + 10 * DigitValue(t[3]) + DigitValue(t[4]),
   m |-> 10 * DigitValue(t[6]) + DigitValue(t[7]),
   d |-> 10 * DigitValue(t[9]) + DigitValue(t[10])]

\* C8: in every prompt the date for "due tomorrow" is one calendar day after
\* the date for "due today" and for TODAY'S DATE.
C8_TomorrowFollowsToday ==
  pc = "built" =>
    /\ prompt.due_today = prompt.today
    /\ prompt.due_tomorrow = Strftime(NextDay(Strptime(prompt.today)))

\* C9: every object extract_action returns has a "type" that is a non-empty
\* string.
C9_TypeNonEmptyString ==
  (CallReturned /\ ret.action.some) =>
    /\ "type" \in DOMAIN ret.action.val
    /\ NonEmptyStr(ret.action.val["type"])

\* the matches in the order of the claim: type-keyed flat objects, action-keyed
\* flat objects, json fences, single backticks, each in order of appearance
OrderedCandidates(s) ==
  FindAll("type_obj", s) \o FindAll("action_obj", s) \o FindAll("fence", s) \o FindAll("tick", s)

CandidateOk(m) == json_loads(m).ok /\ Accepted(json_loads(m).val)

OkIndexes(c) == { k \in 1..Len(c) : CandidateOk(c[k]) }

FirstOk(c) == Some(Normalise(json_loads(c[Min(OkIndexes(c))]).val))

\* C10: extract_action returns the first accepted candidate of the ordered
\* scan, skipping the ones that do not parse or are not accepted, and none
\* only when no candidate is accepted; so a flat type-keyed object anywhere
\* wins over an action-keyed object, also over one that appears earlier.
C10_FirstAcceptedCandidate ==
  CallReturned =>
    /\ ret.action = (IF OkIndexes(OrderedCandidates(content)) = {}
                       THEN None
                       ELSE FirstOk(OrderedCandidates(content)))
    /\ TypedFlat(content) # {} =>
         /\ OkIndexes(FindAll("type_obj", content)) # {}
         /\ ret.action = FirstOk(FindAll("type_obj", content))

C10_Witness ==
  /\ CallReturned
  /\ ActionFlat(content) # {}
  /\ TypedFlat(content) # {}
  /\ Min(ActionFlat(content)) < Min(TypedFlat(content))
  /\ ~CandidateOk(OrderedCandidates(content)[1])
  /\ ret.action.val = FlatDict(content, Min(TypedFlat(content)))

=============================================================================
